---- MODULE Spec2Model ----
(***************************************************************************)
(* A model of nni/retiarii/execution/base.py: the trial payload            *)
(* (BaseGraphData) and the base execution engine (BaseExecutionEngine):    *)
(* its resource ledger, its registry of running models, its listener list, *)
(* the five advisor callbacks and the trial entrypoint trial_execute_graph. *)
(***************************************************************************)
EXTENDS Integers, Sequences, FiniteSets, TLC

VARIABLES
    resources,            \* self.resources
    warnings,             \* number of warning records _logger has emitted
    _running_models,      \* self._running_models: trial id -> model
    _listeners,           \* self._listeners: list of listeners
    status,               \* model.status, per model
    intermediate_metrics, \* model.intermediate_metrics, per model
    metric,               \* model.metric, per model
    next_id,              \* the advisor's count of trials sent so far
    sent,                 \* the advisor's record: trial id -> payload sent
    raised,               \* how the most recent handler invocation ended
    calls,                \* listener calls made by the most recent invocation
    ret,                  \* value the most recent query_available_resource returned
    seen,                 \* per call in calls: the handler's attribute of the model as the listener found it
    steps,                \* history: number of handler invocations begun
    last,                 \* history: the most recent invocation, <<handler, arguments>>
    granted,              \* history: sum of all num_trials granted
    consumed,             \* history: number of consume events begun
    delivered,            \* history: metrics accepted per model, in order
    failed,               \* history: the listeners that raise in the most recent invocation
    ended,                \* history: success flags of the trial-end events handled, per model
    pc,                   \* per thread: position inside a ledger callback
    arg,                  \* per thread: num_trials of the callback in flight
    tmp,                  \* per thread: value of self.resources it loaded
    job,                  \* per thread: the engine method in flight, <<method, arguments>>
    idx,                  \* per thread: position of the method's for loop
    rid,                  \* per thread: the id send_trial returned
    rmodel,               \* per thread: the local model of an event handler
    unknown,              \* history: trial ids for which a lookup raised KeyError
    notified,             \* history: <<listener, model, success, model.status at the call>>
    stage,                \* how far the round trip of gd has got
    gd,                   \* a BaseGraphData object under round trip
    wire,                 \* the dict gd.dump() returned
    loaded,               \* the object BaseGraphData.load(wire) returned
    files,                \* the working directory of the trials: file name -> content
    rpc,                  \* per trial process: position inside trial_execute_graph
    graph_data,           \* per trial process: the local graph_data
    random_str,           \* per trial process: the local random_str
    model_cls             \* per trial process: the script model_cls was imported from

ledger   == <<resources, warnings>>
engine   == <<_running_models, _listeners>>
heap     == <<status, intermediate_metrics, metric>>
advisor  == <<next_id, sent>>
outcome  == <<raised, calls, ret, seen>>
history  == <<last, granted, consumed, delivered, failed, ended>>
race     == <<job, idx, rid, rmodel, unknown, notified>>
threads  == <<pc, arg, tmp, race>>
trial    == <<files, rpc, graph_data, random_str, model_cls>>
payload  == <<stage, gd, wire, loaded, trial>>
vars     == <<steps, ledger, engine, heap, advisor, outcome, history, threads, payload>>

-----------------------------------------------------------------------------
(* Bounds of the model.                                                    *)

MaxSteps == 4
MaxGrant == 2
MaxTrials == 2
NThreads == 2
NRunners == 2
MaxKwargs == 2

Models == {"m1", "m2"}
Listeners == {"L1", "L2"}
Metrics == {"x", "y"}
None == "None"
EventIds == 0..MaxTrials
Threads == 1..NThreads
Runners == 1..NRunners

\* The listeners that raise during one fan-out: none, or one of those
\* registered (the first call that raises ends the fan-out, so a second
\* raising listener adds no outcome, and neither does an unregistered one).
Failures == {{}} \cup {{_listeners[i]} : i \in DOMAIN _listeners}

Range(s) == {s[i] : i \in DOMAIN s}

IsPrefix(s, t) == Len(s) <= Len(t) /\ \A i \in 1..Len(s) : s[i] = t[i]

SeqsUpTo(S, n) == UNION {[1..k -> S] : k \in 0..n}

-----------------------------------------------------------------------------
(* BaseGraphData.  An object is a record of its attributes; a Python dict  *)
(* is a set of <<key, value>> items with distinct keys.                    *)

Keys(d) == {item[1] : item \in d}

GetItem(d, key) == (CHOOSE item \in d : item[1] = key)[2]

BaseGraphData(model_script, training_module, training_kwargs) ==
    [model_script |-> model_script,
     training_module |-> training_module,
     training_kwargs |-> training_kwargs]

dump(self) ==
    {<<"model_script", self.model_script>>,
     <<"training_module", self.training_module>>,
     <<"training_kwargs", self.training_kwargs>>}

\* A slip: the first two constructor arguments in the wrong order.
load_swapped(data) ==
    BaseGraphData(GetItem(data, "training_module"),
                  GetItem(data, "model_script"),
                  GetItem(data, "training_kwargs"))

load(data) ==
    BaseGraphData(GetItem(data, "model_script"),
                  GetItem(data, "training_module"),
                  GetItem(data, "training_kwargs"))

-----------------------------------------------------------------------------
(* Collaborators outside base.py, as base.py uses them.                    *)

\* codegen.model_to_pytorch_script(model)
model_to_pytorch_script(model) ==
    IF model = "m1" THEN "class _model: pass" ELSE "import torch\nclass _model: pass"

\* model.training_config.module
training_config_module(model) == "trainer.Classification"

\* model.training_config.kwargs
training_config_kwargs(model) ==
    IF model = "m1" THEN {} ELSE {<<"epochs", 1>>}

\* integration_api.send_trial(parameters): the advisor numbers the trials it
\* is sent and returns the number of this one.
send_trial_id(count) == count + 1

\* The listener callbacks are the caller's code and may raise.  failing is
\* the set of listeners whose callback raises in this fan-out; FirstFailure
\* is the position in the listener list of the first call that raises, or 0.
FirstFailure(failing) ==
    LET bad == {i \in 1..Len(_listeners) : _listeners[i] \in failing} IN
    IF bad = {} THEN 0 ELSE CHOOSE i \in bad : \A j \in bad : i <= j

\* A slip: the listeners notified last-registered first.
FanOut_reversed(kind, model, value, failing) ==
    LET n == Len(_listeners)
        all == [i \in 1..n |-> <<kind, _listeners[n + 1 - i], model, value>>]
        bad == {i \in 1..n : all[i][2] \in failing}
    IN IF bad = {} THEN all
       ELSE SubSeq(all, 1, CHOOSE i \in bad : \A j \in bad : i <= j)

\* A slip: a listener's exception caught and the remaining listeners
\* notified all the same.
FanOut_keep_going(kind, model, value, failing) ==
    [i \in 1..Len(_listeners) |-> <<kind, _listeners[i], model, value>>]

\* for listener in self._listeners: listener.on_...(model, value).  One call
\* per entry of the list, in list order, up to and including the first call
\* that raises.
FanOut(kind, model, value, failing) ==
    LET all == [i \in 1..Len(_listeners) |-> <<kind, _listeners[i], model, value>>]
        k == FirstFailure(failing)
    IN IF k = 0 THEN all ELSE SubSeq(all, 1, k)

\* How a handler that ends in a fan-out ends: the exception of a listener
\* is not caught.
FanOutRaised(failing) ==
    IF FirstFailure(failing) = 0 THEN "none" ELSE "ListenerError"

-----------------------------------------------------------------------------
(* BaseExecutionEngine.                                                    *)

\* __init__
EngineInit ==
    /\ _listeners = <<>>
    /\ _running_models = <<>>
    /\ resources = 0

\* A slip: every identifier of the batch bound to the batch's last model.
RECURSIVE submit_loop_last(_, _, _, _, _)
submit_loop_last(models, i, registry, count, record) ==
    IF i > Len(models) THEN <<registry, count, record>>
    ELSE LET model == models[Len(models)]
             data == BaseGraphData(model_to_pytorch_script(model),
                                   training_config_module(model),
                                   training_config_kwargs(model))
             id == send_trial_id(count)
         IN submit_loop_last(models, i + 1,
                             (id :> model) @@ registry,
                             id,
                             (id :> dump(data)) @@ record)

\* A slip: a model that is already registered is not submitted again.
RECURSIVE submit_loop_dedup(_, _, _, _, _)
submit_loop_dedup(models, i, registry, count, record) ==
    IF i > Len(models) THEN <<registry, count, record>>
    ELSE LET model == models[i]
             data == BaseGraphData(model_to_pytorch_script(model),
                                   training_config_module(model),
                                   training_config_kwargs(model))
             id == send_trial_id(count)
         IN IF \E old \in DOMAIN registry : registry[old] = model
            THEN submit_loop_dedup(models, i + 1, registry, count, record)
            ELSE submit_loop_dedup(models, i + 1,
                                   (id :> model) @@ registry,
                                   id,
                                   (id :> dump(data)) @@ record)

\* The loop of submit_models over models[i..]: the registry, the advisor's
\* count and the advisor's record after it.
RECURSIVE submit_loop(_, _, _, _, _)
submit_loop(models, i, registry, count, record) ==
    IF i > Len(models) THEN <<registry, count, record>>
    ELSE LET model == models[i]
             data == BaseGraphData(model_to_pytorch_script(model),
                                   training_config_module(model),
                                   training_config_kwargs(model))
             id == send_trial_id(count)
         IN submit_loop(models, i + 1,
                        (id :> model) @@ registry,
                        id,
                        (id :> dump(data)) @@ record)

submit_models(models) ==
    LET r == submit_loop(models, 1, _running_models, next_id, sent) IN
    /\ _running_models' = r[1]
    /\ next_id' = r[2]
    /\ sent' = r[3]
    /\ raised' = "none" /\ calls' = <<>> /\ seen' = <<>>
    /\ UNCHANGED <<ledger, _listeners, heap, ret>>

register_graph_listener(listener) ==
    /\ _listeners' = Append(_listeners, listener)
    /\ raised' = "none" /\ calls' = <<>> /\ seen' = <<>>
    /\ UNCHANGED <<ledger, _running_models, heap, advisor, ret>>

\* A slip: the warning test written as resources < 0.
_send_trial_callback_strict ==
    /\ warnings' = IF resources < 0 THEN warnings + 1 ELSE warnings
    /\ resources' = resources - 1
    /\ raised' = "none" /\ calls' = <<>> /\ seen' = <<>>
    /\ UNCHANGED <<engine, heap, advisor, ret>>

_send_trial_callback ==
    /\ warnings' = IF resources <= 0 THEN warnings + 1 ELSE warnings
    /\ resources' = resources - 1
    /\ raised' = "none" /\ calls' = <<>> /\ seen' = <<>>
    /\ UNCHANGED <<engine, heap, advisor, ret>>

\* A slip: one unit credited per grant event, whatever num_trials is.
_request_trial_jobs_callback_one(num_trials) ==
    /\ resources' = resources + 1
    /\ warnings' = warnings
    /\ raised' = "none" /\ calls' = <<>> /\ seen' = <<>>
    /\ UNCHANGED <<engine, heap, advisor, ret>>

_request_trial_jobs_callback(num_trials) ==
    /\ resources' = resources + num_trials
    /\ warnings' = warnings
    /\ raised' = "none" /\ calls' = <<>> /\ seen' = <<>>
    /\ UNCHANGED <<engine, heap, advisor, ret>>

\* A slip: the finished trial's entry evicted from the registry.
_trial_end_callback_evict(trial_id, success, failing) ==
    IF trial_id \notin DOMAIN _running_models
    THEN /\ raised' = "KeyError" /\ calls' = <<>> /\ seen' = <<>>
         /\ UNCHANGED <<ledger, engine, heap, advisor, ret>>
    ELSE LET model == _running_models[trial_id] IN
         /\ status' = [status EXCEPT ![model] = IF success THEN "Trained" ELSE "Failed"]
         /\ calls' = FanOut("on_training_end", model, success, failing)
         /\ raised' = FanOutRaised(failing)
         /\ _running_models' =
                [id \in DOMAIN _running_models \ {trial_id} |-> _running_models[id]]
         /\ UNCHANGED <<ledger, _listeners, intermediate_metrics, metric, advisor, ret>>
         /\ seen' = [i \in DOMAIN calls' |-> status'[model]]

\* A slip: the finished trial's unit of resource returned to the ledger.
_trial_end_callback_release(trial_id, success, failing) ==
    IF trial_id \notin DOMAIN _running_models
    THEN /\ raised' = "KeyError" /\ calls' = <<>> /\ seen' = <<>>
         /\ UNCHANGED <<ledger, engine, heap, advisor, ret>>
    ELSE LET model == _running_models[trial_id] IN
         /\ status' = [status EXCEPT ![model] = IF success THEN "Trained" ELSE "Failed"]
         /\ calls' = FanOut("on_training_end", model, success, failing)
         /\ raised' = FanOutRaised(failing)
         /\ resources' = resources + 1
         /\ UNCHANGED <<warnings, engine, intermediate_metrics, metric, advisor, ret>>
         /\ seen' = [i \in DOMAIN calls' |-> status'[model]]

\* A slip: a terminal status kept once it is set.
_trial_end_callback_sticky(trial_id, success, failing) ==
    IF trial_id \notin DOMAIN _running_models
    THEN /\ raised' = "KeyError" /\ calls' = <<>> /\ seen' = <<>>
         /\ UNCHANGED <<ledger, engine, heap, advisor, ret>>
    ELSE LET model == _running_models[trial_id] IN
         /\ status' = [status EXCEPT ![model] =
                           IF @ \in {"Trained", "Failed"} THEN @
                           ELSE IF success THEN "Trained" ELSE "Failed"]
         /\ calls' = FanOut("on_training_end", model, success, failing)
         /\ raised' = FanOutRaised(failing)
         /\ UNCHANGED <<ledger, engine, intermediate_metrics, metric, advisor, ret>>
         /\ seen' = [i \in DOMAIN calls' |-> status'[model]]

\* The status is assigned before the loop over the listeners, so each
\* listener called finds the status of this event on the model (seen).
_trial_end_callback(trial_id, success, failing) ==
    IF trial_id \notin DOMAIN _running_models
    THEN /\ raised' = "KeyError" /\ calls' = <<>> /\ seen' = <<>>
         /\ UNCHANGED <<ledger, engine, heap, advisor, ret>>
    ELSE LET model == _running_models[trial_id] IN
         /\ status' = [status EXCEPT ![model] = IF success THEN "Trained" ELSE "Failed"]
         /\ calls' = FanOut("on_training_end", model, success, failing)
         /\ raised' = FanOutRaised(failing)
         /\ UNCHANGED <<ledger, engine, intermediate_metrics, metric, advisor, ret>>
         /\ seen' = [i \in DOMAIN calls' |-> status'[model]]

\* A slip: an unknown identifier ignored instead of raising.
_intermediate_metric_callback_lenient(trial_id, metrics, failing) ==
    IF trial_id \notin DOMAIN _running_models
    THEN /\ raised' = "none" /\ calls' = <<>> /\ seen' = <<>>
         /\ UNCHANGED <<ledger, engine, heap, advisor, ret>>
    ELSE LET model == _running_models[trial_id] IN
         /\ intermediate_metrics' =
                [intermediate_metrics EXCEPT ![model] = Append(@, metrics)]
         /\ calls' = FanOut("on_intermediate_metric", model, metrics, failing)
         /\ raised' = FanOutRaised(failing)
         /\ UNCHANGED <<ledger, engine, status, metric, advisor, ret>>
         /\ seen' = [i \in DOMAIN calls' |-> intermediate_metrics'[model]]

\* A slip: the metric sequence replaced by the new metric.
_intermediate_metric_callback_replace(trial_id, metrics, failing) ==
    IF trial_id \notin DOMAIN _running_models
    THEN /\ raised' = "KeyError" /\ calls' = <<>> /\ seen' = <<>>
         /\ UNCHANGED <<ledger, engine, heap, advisor, ret>>
    ELSE LET model == _running_models[trial_id] IN
         /\ intermediate_metrics' = [intermediate_metrics EXCEPT ![model] = <<metrics>>]
         /\ calls' = FanOut("on_intermediate_metric", model, metrics, failing)
         /\ raised' = FanOutRaised(failing)
         /\ UNCHANGED <<ledger, engine, status, metric, advisor, ret>>
         /\ seen' = [i \in DOMAIN calls' |-> intermediate_metrics'[model]]

\* A slip: the listeners notified before the metric is appended.
_intermediate_metric_callback_notify_first(trial_id, metrics, failing) ==
    IF trial_id \notin DOMAIN _running_models
    THEN /\ raised' = "KeyError" /\ calls' = <<>> /\ seen' = <<>>
         /\ UNCHANGED <<ledger, engine, heap, advisor, ret>>
    ELSE LET model == _running_models[trial_id] IN
         /\ calls' = FanOut("on_intermediate_metric", model, metrics, failing)
         /\ raised' = FanOutRaised(failing)
         /\ seen' = [i \in DOMAIN calls' |-> intermediate_metrics[model]]
         /\ intermediate_metrics' =
                [intermediate_metrics EXCEPT ![model] = Append(@, metrics)]
         /\ UNCHANGED <<ledger, engine, status, metric, advisor, ret>>

_intermediate_metric_callback(trial_id, metrics, failing) ==
    IF trial_id \notin DOMAIN _running_models
    THEN /\ raised' = "KeyError" /\ calls' = <<>> /\ seen' = <<>>
         /\ UNCHANGED <<ledger, engine, heap, advisor, ret>>
    ELSE LET model == _running_models[trial_id] IN
         /\ intermediate_metrics' =
                [intermediate_metrics EXCEPT ![model] = Append(@, metrics)]
         /\ calls' = FanOut("on_intermediate_metric", model, metrics, failing)
         /\ raised' = FanOutRaised(failing)
         /\ UNCHANGED <<ledger, engine, status, metric, advisor, ret>>
         /\ seen' = [i \in DOMAIN calls' |-> intermediate_metrics'[model]]

\* A slip: the final metric written once and kept.
_final_metric_callback_write_once(trial_id, metrics, failing) ==
    IF trial_id \notin DOMAIN _running_models
    THEN /\ raised' = "KeyError" /\ calls' = <<>> /\ seen' = <<>>
         /\ UNCHANGED <<ledger, engine, heap, advisor, ret>>
    ELSE LET model == _running_models[trial_id] IN
         /\ metric' = [metric EXCEPT ![model] = IF @ = None THEN metrics ELSE @]
         /\ calls' = FanOut("on_metric", model, metrics, failing)
         /\ raised' = FanOutRaised(failing)
         /\ UNCHANGED <<ledger, engine, status, intermediate_metrics, advisor, ret>>
         /\ seen' = [i \in DOMAIN calls' |-> metric'[model]]

_final_metric_callback(trial_id, metrics, failing) ==
    IF trial_id \notin DOMAIN _running_models
    THEN /\ raised' = "KeyError" /\ calls' = <<>> /\ seen' = <<>>
         /\ UNCHANGED <<ledger, engine, heap, advisor, ret>>
    ELSE LET model == _running_models[trial_id] IN
         /\ metric' = [metric EXCEPT ![model] = metrics]
         /\ calls' = FanOut("on_metric", model, metrics, failing)
         /\ raised' = FanOutRaised(failing)
         /\ UNCHANGED <<ledger, engine, status, intermediate_metrics, advisor, ret>>
         /\ seen' = [i \in DOMAIN calls' |-> metric'[model]]

\* A slip: a query that reserves the unit it reports.
query_available_resource_take ==
    /\ ret' = resources
    /\ resources' = resources - 1
    /\ warnings' = warnings
    /\ raised' = "none" /\ calls' = <<>> /\ seen' = <<>>
    /\ UNCHANGED <<engine, heap, advisor>>

query_available_resource ==
    /\ ret' = resources
    /\ raised' = "none" /\ calls' = <<>> /\ seen' = <<>>
    /\ UNCHANGED <<ledger, engine, heap, advisor>>

-----------------------------------------------------------------------------
(* The environment: the caller of the engine and the advisor's events,     *)
(* one handler invocation at a time.                                       *)

RaceIdle ==
    /\ job = [t \in Threads |-> <<>>]
    /\ idx = [t \in Threads |-> 0]
    /\ rid = [t \in Threads |-> 0]
    /\ rmodel = [t \in Threads |-> ""]
    /\ unknown = {}
    /\ notified = {}

ThreadsIdle ==
    /\ pc = [t \in Threads |-> "idle"]
    /\ arg = [t \in Threads |-> 0]
    /\ tmp = [t \in Threads |-> 0]
    /\ RaceIdle

PayloadIdle ==
    /\ stage = "new"
    /\ wire = {}
    /\ loaded = BaseGraphData("", "", {})

\* No trial process has started; the working directory holds no generated file.
TrialIdle ==
    /\ files = <<>>
    /\ rpc = [r \in Runners |-> "start"]
    /\ graph_data = [r \in Runners |-> BaseGraphData("", "", {})]
    /\ random_str = [r \in Runners |-> ""]
    /\ model_cls = [r \in Runners |-> ""]

Fresh ==
    /\ EngineInit
    /\ warnings = 0
    /\ status = [m \in Models |-> "Waiting"]
    /\ intermediate_metrics = [m \in Models |-> <<>>]
    /\ metric = [m \in Models |-> None]
    /\ next_id = 0
    /\ sent = <<>>
    /\ raised = "none"
    /\ calls = <<>>
    /\ ret = 0
    /\ steps = 0
    /\ last = <<"__init__">>
    /\ granted = 0
    /\ consumed = 0
    /\ delivered = [m \in Models |-> <<>>]
    /\ failed = {}
    /\ ended = [m \in Models |-> <<>>]
    /\ seen = <<>>
    /\ ThreadsIdle
    /\ PayloadIdle
    /\ TrialIdle

Init ==
    /\ Fresh
    /\ gd = BaseGraphData("", "", {})

Grant(n) ==
    /\ _request_trial_jobs_callback(n)
    /\ last' = <<"request_trial_jobs", n>>
    /\ granted' = granted + n
    /\ failed' = {}
    /\ UNCHANGED <<consumed, delivered, ended, threads, payload>>

Consume ==
    /\ _send_trial_callback
    /\ last' = <<"send_trial">>
    /\ consumed' = consumed + 1
    /\ failed' = {}
    /\ UNCHANGED <<granted, delivered, ended, threads, payload>>

Query ==
    /\ query_available_resource
    /\ last' = <<"query_available_resource">>
    /\ failed' = {}
    /\ UNCHANGED <<granted, consumed, delivered, ended, threads, payload>>

Submit(models) ==
    /\ submit_models(models)
    /\ last' = <<"submit_models", models>>
    /\ failed' = {}
    /\ UNCHANGED <<granted, consumed, delivered, ended, threads, payload>>

Register(listener) ==
    /\ register_graph_listener(listener)
    /\ last' = <<"register_graph_listener", listener>>
    /\ failed' = {}
    /\ UNCHANGED <<granted, consumed, delivered, ended, threads, payload>>

TrialEnd(trial_id, success, failing) ==
    /\ _trial_end_callback(trial_id, success, failing)
    /\ last' = <<"trial_end", trial_id, success>>
    /\ failed' = failing
    /\ ended' = IF trial_id \in DOMAIN _running_models
                THEN [ended EXCEPT ![_running_models[trial_id]] = Append(@, success)]
                ELSE ended
    /\ UNCHANGED <<granted, consumed, delivered, threads, payload>>

IntermediateMetric(trial_id, metrics, failing) ==
    /\ _intermediate_metric_callback(trial_id, metrics, failing)
    /\ last' = <<"intermediate_metric", trial_id, metrics>>
    /\ delivered' = IF trial_id \in DOMAIN _running_models
                    THEN [delivered EXCEPT ![_running_models[trial_id]] = Append(@, metrics)]
                    ELSE delivered
    /\ failed' = failing
    /\ UNCHANGED <<granted, consumed, ended, threads, payload>>

FinalMetric(trial_id, metrics, failing) ==
    /\ _final_metric_callback(trial_id, metrics, failing)
    /\ last' = <<"final_metric", trial_id, metrics>>
    /\ failed' = failing
    /\ UNCHANGED <<granted, consumed, delivered, ended, threads, payload>>

\* The environment begins one more handler invocation.
Tick == steps < MaxSteps /\ steps' = steps + 1

\* Any run of at most MaxSteps handler invocations, each run to completion
\* before the next begins.
Next ==
    \/ \E n \in 0..MaxGrant : Tick /\ Grant(n)
    \/ Tick /\ Consume
    \/ Tick /\ Query
    \/ \E models \in SeqsUpTo(Models, MaxTrials) :
          next_id + Len(models) <= MaxTrials /\ Tick /\ Submit(models)
    \/ \E listener \in Listeners : Tick /\ Register(listener)
    \/ \E trial_id \in EventIds, success \in BOOLEAN, failing \in Failures :
          Tick /\ TrialEnd(trial_id, success, failing)
    \/ \E trial_id \in EventIds, metrics \in Metrics, failing \in Failures :
          Tick /\ IntermediateMetric(trial_id, metrics, failing)
    \/ \E trial_id \in EventIds, metrics \in Metrics, failing \in Failures :
          Tick /\ FinalMetric(trial_id, metrics, failing)

Spec == Init /\ [][Next]_vars

-----------------------------------------------------------------------------
(* The two ledger callbacks invoked from several threads.  The engine      *)
(* holds no lock, and self.resources += n and self.resources -= 1 are each *)
(* a load of the attribute, an arithmetic step on the loaded value and a   *)
(* store, between which another thread may run.                            *)

\* A thread enters _request_trial_jobs_callback(num_trials).
CallGrant(t, num_trials) ==
    /\ pc[t] = "idle"
    /\ pc' = [pc EXCEPT ![t] = "grant_load"]
    /\ arg' = [arg EXCEPT ![t] = num_trials]
    /\ granted' = granted + num_trials
    /\ UNCHANGED <<ledger, engine, heap, advisor, outcome, last, consumed, delivered, failed, ended, tmp, payload, race>>

\* self.resources += num_trials: the load.
GrantLoad(t) ==
    /\ pc[t] = "grant_load"
    /\ tmp' = [tmp EXCEPT ![t] = resources]
    /\ pc' = [pc EXCEPT ![t] = "grant_store"]
    /\ UNCHANGED <<steps, ledger, engine, heap, advisor, outcome, history, arg, payload, race>>

\* self.resources += num_trials: the store, and the return.
GrantStore(t) ==
    /\ pc[t] = "grant_store"
    /\ resources' = tmp[t] + arg[t]
    /\ pc' = [pc EXCEPT ![t] = "idle"]
    /\ UNCHANGED <<steps, warnings, engine, heap, advisor, outcome, history, arg, tmp, payload, race>>

\* A thread enters _send_trial_callback.
CallConsume(t) ==
    /\ pc[t] = "idle"
    /\ pc' = [pc EXCEPT ![t] = "consume_test"]
    /\ consumed' = consumed + 1
    /\ UNCHANGED <<ledger, engine, heap, advisor, outcome, last, granted, delivered, failed, ended, arg, tmp, payload, race>>

\* if self.resources <= 0: _logger.warning(...)
ConsumeTest(t) ==
    /\ pc[t] = "consume_test"
    /\ warnings' = IF resources <= 0 THEN warnings + 1 ELSE warnings
    /\ pc' = [pc EXCEPT ![t] = "consume_load"]
    /\ UNCHANGED <<steps, resources, engine, heap, advisor, outcome, history, arg, tmp, payload, race>>

\* self.resources -= 1: the load.
ConsumeLoad(t) ==
    /\ pc[t] = "consume_load"
    /\ tmp' = [tmp EXCEPT ![t] = resources]
    /\ pc' = [pc EXCEPT ![t] = "consume_store"]
    /\ UNCHANGED <<steps, ledger, engine, heap, advisor, outcome, history, arg, payload, race>>

\* self.resources -= 1: the store, and the return.
ConsumeStore(t) ==
    /\ pc[t] = "consume_store"
    /\ resources' = tmp[t] - 1
    /\ pc' = [pc EXCEPT ![t] = "idle"]
    /\ UNCHANGED <<steps, warnings, engine, heap, advisor, outcome, history, arg, tmp, payload, race>>

\* At most MaxSteps invocations of the ledger callbacks, on NThreads threads
\* that interleave between the steps above.
NextConc ==
    \/ \E t \in Threads, n \in 0..MaxGrant : Tick /\ CallGrant(t, n)
    \/ \E t \in Threads : GrantLoad(t)
    \/ \E t \in Threads : GrantStore(t)
    \/ \E t \in Threads : Tick /\ CallConsume(t)
    \/ \E t \in Threads : ConsumeTest(t)
    \/ \E t \in Threads : ConsumeLoad(t)
    \/ \E t \in Threads : ConsumeStore(t)

SpecConc == Init /\ [][NextConc]_vars

-----------------------------------------------------------------------------
(* submit_models, register_graph_listener and _trial_end_callback invoked  *)
(* from several threads: the strategy submits on one thread while the      *)
(* advisor delivers events on others.  The engine holds no lock, so the    *)
(* threads interleave between the statements of the methods: between       *)
(* send_trial returning and the store into self._running_models, between   *)
(* the assignment of model.status and each listener call.                  *)

outside_race == <<ledger, intermediate_metrics, metric, outcome, history, arg, tmp, payload>>

InSubmit(t) == pc[t] \in {"submit_send", "submit_store"}

\* The strategy thread enters submit_models(*models); it makes one
\* submission at a time.
RaceCallSubmit(t, models) ==
    /\ pc[t] = "idle"
    /\ \A u \in Threads : ~InSubmit(u)
    /\ next_id + Len(models) <= MaxTrials
    /\ job' = [job EXCEPT ![t] = <<"submit_models", models>>]
    /\ idx' = [idx EXCEPT ![t] = 1]
    /\ pc' = [pc EXCEPT ![t] = IF Len(models) = 0 THEN "idle" ELSE "submit_send"]
    /\ UNCHANGED <<outside_race, engine, status, advisor, rid, rmodel, unknown, notified>>

\* data = BaseGraphData(...); send_trial(data.dump()) returns the trial id.
RaceSubmitSend(t) ==
    /\ pc[t] = "submit_send"
    /\ LET model == job[t][2][idx[t]]
           data == BaseGraphData(model_to_pytorch_script(model),
                                 training_config_module(model),
                                 training_config_kwargs(model))
           id == send_trial_id(next_id)
       IN /\ next_id' = id
          /\ sent' = (id :> dump(data)) @@ sent
          /\ rid' = [rid EXCEPT ![t] = id]
    /\ pc' = [pc EXCEPT ![t] = "submit_store"]
    /\ UNCHANGED <<steps, outside_race, engine, status, job, idx, rmodel, unknown, notified>>

\* self._running_models[<the id returned>] = model, and the loop's next turn.
RaceSubmitStore(t) ==
    /\ pc[t] = "submit_store"
    /\ _running_models' = (rid[t] :> job[t][2][idx[t]]) @@ _running_models
    /\ idx' = [idx EXCEPT ![t] = idx[t] + 1]
    /\ pc' = [pc EXCEPT ![t] = IF idx[t] + 1 > Len(job[t][2]) THEN "idle" ELSE "submit_send"]
    /\ UNCHANGED <<steps, outside_race, _listeners, status, advisor, job, rid, rmodel, unknown, notified>>

\* register_graph_listener(listener): one list append.
RaceRegister(listener) ==
    /\ _listeners' = Append(_listeners, listener)
    /\ UNCHANGED <<outside_race, _running_models, status, advisor, pc, race>>

\* The advisor delivers a trial-end event for a trial it has been sent,
\* that is, for an id send_trial has returned.
RaceCallTrialEnd(t, trial_id, success) ==
    /\ pc[t] = "idle"
    /\ trial_id \in 1..next_id
    /\ job' = [job EXCEPT ![t] = <<"trial_end", trial_id, success>>]
    /\ pc' = [pc EXCEPT ![t] = "end_lookup"]
    /\ UNCHANGED <<outside_race, engine, status, advisor, idx, rid, rmodel, unknown, notified>>

\* model = self._running_models[trial_id]: KeyError leaves the handler.
RaceEndLookup(t) ==
    /\ pc[t] = "end_lookup"
    /\ IF job[t][2] \in DOMAIN _running_models
       THEN /\ rmodel' = [rmodel EXCEPT ![t] = _running_models[job[t][2]]]
            /\ pc' = [pc EXCEPT ![t] = "end_status"]
            /\ unknown' = unknown
       ELSE /\ rmodel' = rmodel
            /\ pc' = [pc EXCEPT ![t] = "idle"]
            /\ unknown' = unknown \cup {job[t][2]}
    /\ UNCHANGED <<steps, outside_race, engine, status, advisor, job, idx, rid, notified>>

\* model.status = ModelStatus.Trained / ModelStatus.Failed
RaceEndStatus(t) ==
    /\ pc[t] = "end_status"
    /\ status' = [status EXCEPT ![rmodel[t]] = IF job[t][3] THEN "Trained" ELSE "Failed"]
    /\ idx' = [idx EXCEPT ![t] = 1]
    /\ pc' = [pc EXCEPT ![t] = "end_notify"]
    /\ UNCHANGED <<steps, outside_race, engine, advisor, job, rid, rmodel, unknown, notified>>

\* listener.on_training_end(model, success) for the next listener of the
\* list; the listener is handed the model object and reads its status now.
RaceEndNotify(t) ==
    /\ pc[t] = "end_notify"
    /\ idx[t] <= Len(_listeners)
    /\ notified' = notified \cup {<<_listeners[idx[t]], rmodel[t], job[t][3], status[rmodel[t]]>>}
    /\ idx' = [idx EXCEPT ![t] = idx[t] + 1]
    /\ UNCHANGED <<steps, outside_race, engine, status, advisor, pc, job, rid, rmodel, unknown>>

\* The for loop is exhausted and the handler returns.
RaceEndReturn(t) ==
    /\ pc[t] = "end_notify"
    /\ idx[t] > Len(_listeners)
    /\ pc' = [pc EXCEPT ![t] = "idle"]
    /\ UNCHANGED <<steps, outside_race, engine, status, advisor, job, idx, rid, rmodel, unknown, notified>>

\* At most MaxSteps invocations, on NThreads threads that interleave between
\* the steps above.
NextRace ==
    \/ \E t \in Threads, models \in SeqsUpTo(Models, MaxTrials) : Tick /\ RaceCallSubmit(t, models)
    \/ \E t \in Threads : RaceSubmitSend(t)
    \/ \E t \in Threads : RaceSubmitStore(t)
    \/ \E listener \in Listeners : Tick /\ RaceRegister(listener)
    \/ \E t \in Threads, trial_id \in EventIds, success \in BOOLEAN :
          Tick /\ RaceCallTrialEnd(t, trial_id, success)
    \/ \E t \in Threads : RaceEndLookup(t)
    \/ \E t \in Threads : RaceEndStatus(t)
    \/ \E t \in Threads : RaceEndNotify(t)
    \/ \E t \in Threads : RaceEndReturn(t)

SpecRace == Init /\ [][NextRace]_vars

-----------------------------------------------------------------------------
(* One payload on its way from the engine to the trial: constructed and    *)
(* dumped in submit_models, loaded in trial_execute_graph.                 *)

Scripts == {"", "x = 1", "x = 1\ny = 2"}
TrainingModules == {"pkg.Trainer", "other.Trainer"}
KwargNames == <<"epochs", "lr", "seed", "batch">>
KwargKeys == {KwargNames[i] : i \in 1..MaxKwargs}
KwargValues == {0, 1}

\* Every dict with keys among KwargKeys and values among KwargValues.
KwargDicts ==
    UNION {{{<<k, f[k]>> : k \in K} : f \in [K -> KwargValues]} : K \in SUBSET KwargKeys}

Payloads ==
    {BaseGraphData(script, module, kwargs) :
        script \in Scripts, module \in TrainingModules, kwargs \in KwargDicts}

InitPayload ==
    /\ Fresh
    /\ gd \in Payloads

\* send_trial(data.dump())
Dump ==
    /\ stage = "new"
    /\ wire' = dump(gd)
    /\ stage' = "dumped"
    /\ UNCHANGED <<steps, ledger, engine, heap, advisor, outcome, history, threads, gd, loaded, trial>>

\* graph_data = BaseGraphData.load(receive_trial_parameters())
Load ==
    /\ stage = "dumped"
    /\ loaded' = load(wire)
    /\ stage' = "loaded"
    /\ UNCHANGED <<steps, ledger, engine, heap, advisor, outcome, history, threads, gd, wire, trial>>

NextPayload == Dump \/ Load

SpecPayload == InitPayload /\ [][NextPayload]_vars

-----------------------------------------------------------------------------
(* trial_execute_graph, run by NRunners trial processes that share one     *)
(* working directory.  Each statement of the method is one step; a step    *)
(* that calls into the trainer, the generated script or the import system  *)
(* either returns or raises, and nothing in the method catches.            *)

\* random.choice(string.ascii_uppercase + string.digits) for _ in range(6):
\* strings of RandomStrLen symbols, of which the model keeps these.
RandomStrLen == 6
RandomStrs == {"A1B2C3", "Z9Y8X7"}

\* f'_generated_model_{random_str}.py'
file_name(rs) == <<"_generated_model_", rs, ".py">>

\* receive_trial_parameters(): the dict the engine dumped for this trial.
receive_trial_parameters(r) ==
    LET model == IF r = 1 THEN "m1" ELSE "m2" IN
    dump(BaseGraphData(model_to_pytorch_script(model),
                       training_config_module(model),
                       training_config_kwargs(model)))

\* os.remove(file_name) on the directory
remove(dir, name) == [n \in (DOMAIN dir) \ {name} |-> dir[n]]

outside_trial == <<steps, ledger, engine, heap, advisor, outcome, history, threads,
                   stage, gd, wire, loaded>>

\* graph_data = BaseGraphData.load(receive_trial_parameters())
TrialLoad(r) ==
    /\ rpc[r] = "start"
    /\ graph_data' = [graph_data EXCEPT ![r] = load(receive_trial_parameters(r))]
    /\ rpc' = [rpc EXCEPT ![r] = "loaded"]
    /\ UNCHANGED <<outside_trial, files, random_str, model_cls>>

\* random_str = ''.join(random.choice(...) for _ in range(6)): any string
\* of the alphabet is a possible outcome, whatever the other processes drew.
TrialName(r, rs) ==
    /\ rpc[r] = "loaded"
    /\ Len(rs) = RandomStrLen
    /\ random_str' = [random_str EXCEPT ![r] = rs]
    /\ rpc' = [rpc EXCEPT ![r] = "named"]
    /\ UNCHANGED <<outside_trial, files, graph_data, model_cls>>

\* with open(file_name, 'w') as f: f.write(graph_data.model_script)
TrialWrite(r) ==
    /\ rpc[r] = "named"
    /\ files' = (file_name(random_str[r]) :> graph_data[r].model_script) @@ files
    /\ rpc' = [rpc EXCEPT ![r] = "written"]
    /\ UNCHANGED <<outside_trial, graph_data, random_str, model_cls>>

\* trainer_cls = utils.import_(graph_data.training_module)
TrialImportTrainer(r, ok) ==
    /\ rpc[r] = "written"
    /\ rpc' = [rpc EXCEPT ![r] = IF ok THEN "trainer_imported" ELSE "raised"]
    /\ UNCHANGED <<outside_trial, files, graph_data, random_str, model_cls>>

\* model_cls = utils.import_(f'_generated_model_{random_str}._model'): the
\* import executes whatever the file of that name holds now, and raises if
\* there is no such file or if the script raises.
TrialImportModel(r, ok) ==
    /\ rpc[r] = "trainer_imported"
    /\ IF ok /\ file_name(random_str[r]) \in DOMAIN files
       THEN /\ model_cls' = [model_cls EXCEPT ![r] = files[file_name(random_str[r])]]
            /\ rpc' = [rpc EXCEPT ![r] = "model_imported"]
       ELSE /\ model_cls' = model_cls
            /\ rpc' = [rpc EXCEPT ![r] = "raised"]
    /\ UNCHANGED <<outside_trial, files, graph_data, random_str>>

\* trainer_instance = trainer_cls(model=model_cls(), **graph_data.training_kwargs)
TrialConstruct(r, ok) ==
    /\ rpc[r] = "model_imported"
    /\ rpc' = [rpc EXCEPT ![r] = IF ok THEN "constructed" ELSE "raised"]
    /\ UNCHANGED <<outside_trial, files, graph_data, random_str, model_cls>>

\* trainer_instance.fit()
TrialFit(r, ok) ==
    /\ rpc[r] = "constructed"
    /\ rpc' = [rpc EXCEPT ![r] = IF ok THEN "fitted" ELSE "raised"]
    /\ UNCHANGED <<outside_trial, files, graph_data, random_str, model_cls>>

\* os.remove(file_name): raises FileNotFoundError if the file is gone.
TrialRemove(r) ==
    /\ rpc[r] = "fitted"
    /\ IF file_name(random_str[r]) \in DOMAIN files
       THEN /\ files' = remove(files, file_name(random_str[r]))
            /\ rpc' = [rpc EXCEPT ![r] = "done"]
       ELSE /\ files' = files
            /\ rpc' = [rpc EXCEPT ![r] = "raised"]
    /\ UNCHANGED <<outside_trial, graph_data, random_str, model_cls>>

NextTrial ==
    \/ \E r \in Runners : TrialLoad(r)
    \/ \E r \in Runners, rs \in RandomStrs : TrialName(r, rs)
    \/ \E r \in Runners : TrialWrite(r)
    \/ \E r \in Runners, ok \in BOOLEAN : TrialImportTrainer(r, ok)
    \/ \E r \in Runners, ok \in BOOLEAN : TrialImportModel(r, ok)
    \/ \E r \in Runners, ok \in BOOLEAN : TrialConstruct(r, ok)
    \/ \E r \in Runners, ok \in BOOLEAN : TrialFit(r, ok)
    \/ \E r \in Runners : TrialRemove(r)

SpecTrial == Init /\ [][NextTrial]_vars

-----------------------------------------------------------------------------
(* The resource ledger.                                                    *)

\* C1: after any sequence of grant(n) and consume events applied one at a
\* time to a fresh engine, the ledger is the sum of the grants minus the
\* number of consumes, also when that is negative, and
\* query_available_resource returns that value.
C1_QueryIsGrantsMinusConsumes ==
    /\ [](resources = granted - consumed)
    /\ [][last'[1] = "query_available_resource" /\ steps' = steps + 1 =>
              ret' = granted - consumed]_vars

\* C1 witness: grant(1), two consumes, then a query that returned -1.
C1_NegativeQueried ==
    /\ granted = 1 /\ consumed = 2
    /\ last[1] = "query_available_resource"
    /\ ret = -1 /\ resources = -1

\* C3: a consume event never raises and always takes exactly one unit from
\* the ledger, below zero if need be; it emits one warning exactly when the
\* ledger was <= 0 before the decrement, and none otherwise.
C3_ConsumeWarnsAndDecrements ==
    [][last'[1] = "send_trial" /\ steps' = steps + 1 =>
          /\ raised' = "none"
          /\ resources' = resources - 1
          /\ warnings' = (IF resources <= 0 THEN warnings + 1 ELSE warnings)]_vars

\* C3 witness: grant(2), consume, consume (ledger 0, no warning so far), then
\* a third consume: ledger -1, one warning, no exception.
C3_ThirdConsumeWarned ==
    /\ granted = 2 /\ consumed = 3 /\ steps = 4
    /\ last = <<"send_trial">>
    /\ resources = -1 /\ warnings = 1 /\ raised = "none"

\* C2: grant and consume are atomic with respect to each other: whenever no
\* ledger callback is in flight, the ledger is the sum of the grants minus
\* the number of consumes, for every interleaving of the callbacks.
C2_NoLostUpdate ==
    (\A t \in Threads : pc[t] = "idle") => resources = granted - consumed

-----------------------------------------------------------------------------
(* Registry, listeners and events.                                         *)

\* The step delivers an event of one of the given kinds.
Delivers(kinds) == steps' = steps + 1 /\ last'[1] \in kinds

\* The step delivers such an event for an identifier in the registry.
DeliversKnown(kinds) == Delivers(kinds) /\ last'[2] \in DOMAIN _running_models

TerminalStatus(success) == IF success THEN "Trained" ELSE "Failed"

\* The position at which a listener was first registered.
FirstIndex(listener) ==
    CHOOSE i \in 1..Len(_listeners) :
        _listeners[i] = listener /\ \A j \in 1..(i - 1) : _listeners[j] /= listener

C5_UnknownTrialRaises ==
    [][(Delivers({"trial_end", "intermediate_metric", "final_metric"})
          /\ last'[2] \notin DOMAIN _running_models) =>
          /\ raised' = "KeyError"
          /\ calls' = <<>>
          /\ UNCHANGED <<resources, _running_models, _listeners,
                         status, intermediate_metrics, metric>>]_vars

\* C5 witness: an intermediate metric for an unknown identifier, delivered
\* to an engine with a non-zero ledger, a listener and a running model.
C5_UnknownMetricRejected ==
    /\ last[1] = "intermediate_metric"
    /\ last[2] \notin DOMAIN _running_models
    /\ raised = "KeyError"
    /\ resources /= 0 /\ _listeners /= <<>> /\ DOMAIN _running_models /= {}

\* C6: with an advisor that returns a fresh identifier per sendTrial,
\* submit_models(m1..mN) makes N sendTrial calls and adds N registry entries
\* under N distinct identifiers, the i-th identifier returned mapping to the
\* i-th model; and an event on a registered identifier acts on the model
\* registered under it and on no other model.
C6_SubmitRegistersEachModel ==
    [][/\ Delivers({"submit_models"}) =>
             LET models == last'[2]
                 new == DOMAIN _running_models' \ DOMAIN _running_models
             IN /\ next_id' = next_id + Len(models)
                /\ DOMAIN sent' \ DOMAIN sent = new
                /\ Cardinality(new) = Len(models)
                /\ \A i \in 1..Len(models) :
                       /\ next_id + i \in new
                       /\ _running_models'[next_id + i] = models[i]
       /\ DeliversKnown({"trial_end", "intermediate_metric", "final_metric"}) =>
             LET model == _running_models[last'[2]] IN
             /\ \A other \in Models \ {model} :
                    /\ status'[other] = status[other]
                    /\ intermediate_metrics'[other] = intermediate_metrics[other]
                    /\ metric'[other] = metric[other]
             /\ \A i \in DOMAIN calls' : calls'[i][3] = model
             /\ last'[1] = "trial_end" => status'[model] = TerminalStatus(last'[3])
             /\ last'[1] = "intermediate_metric" =>
                    intermediate_metrics'[model] /= intermediate_metrics[model]
             /\ last'[1] = "final_metric" => metric'[model] = last'[3]]_vars

\* C6 witness: m1 and m2 submitted in one call got identifiers 1 and 2, and
\* a final metric for identifier 2 reached m2 alone.
C6_TwoSubmittedSecondUpdated ==
    /\ DOMAIN _running_models = {1, 2}
    /\ _running_models[1] = "m1" /\ _running_models[2] = "m2"
    /\ last = <<"final_metric", 2, "x">>
    /\ metric["m2"] = "x" /\ metric["m1"] = None
    /\ steps = 2

\* C7: the registry is append-only: an identifier in the registry stays in
\* it, mapped to the same model, and only submit_models changes the registry.
C7_RegistryAppendOnly ==
    [][/\ \A id \in DOMAIN _running_models :
              id \in DOMAIN _running_models' /\ _running_models'[id] = _running_models[id]
       /\ _running_models' /= _running_models => Delivers({"submit_models"})]_vars

\* C7 witness: a second submission after a trial of the first has ended:
\* both entries are present.
C7_EntryKeptAfterTrialEnd ==
    /\ status["m1"] = "Failed"
    /\ last[1] = "submit_models" /\ last[2] = <<"m2">>
    /\ DOMAIN _running_models = {1, 2}
    /\ _running_models[1] = "m1" /\ _running_models[2] = "m2"

\* C8: an intermediate-metric event on a registered id appends the metric to
\* the model's sequence: the sequence is always the metrics delivered for
\* the model, in delivery order, and every earlier value of the sequence is
\* a prefix of every later one.
C8_IntermediateMetricsAppendOnly ==
    /\ [](\A m \in Models : intermediate_metrics[m] = delivered[m])
    /\ [][\A m \in Models :
              IsPrefix(intermediate_metrics[m], intermediate_metrics'[m])]_vars
    /\ [][DeliversKnown({"intermediate_metric"}) =>
              LET model == _running_models[last'[2]] IN
              intermediate_metrics'[model] =
                  Append(intermediate_metrics[model], last'[3])]_vars

\* C8 witness: x and then y delivered for trial 1.
C8_TwoMetricsInOrder ==
    /\ 1 \in DOMAIN _running_models
    /\ intermediate_metrics[_running_models[1]] = <<"x", "y">>
    /\ last = <<"intermediate_metric", 1, "y">>

\* C9: a final-metric event on a registered id sets the model's final metric
\* to the event's metric whatever it was before, and leaves every
\* intermediate-metric sequence alone; nothing else writes the final metric,
\* so it is always the metric of the most recent final-metric event.
C9_FinalMetricOverwrites ==
    [][/\ DeliversKnown({"final_metric"}) =>
             /\ metric'[_running_models[last'[2]]] = last'[3]
             /\ intermediate_metrics' = intermediate_metrics
       /\ metric' /= metric => DeliversKnown({"final_metric"})]_vars

\* C9 witness: a final metric y delivered for trial 1, whose model already
\* had the intermediate metric x: the model holds y and still <<x>>.
C9_FinalMetricAfterIntermediate ==
    /\ 1 \in DOMAIN _running_models
    /\ last = <<"final_metric", 1, "y">>
    /\ metric[_running_models[1]] = "y"
    /\ intermediate_metrics[_running_models[1]] = <<"x">>
    /\ steps = 4

-----------------------------------------------------------------------------
(* The trial payload.                                                      *)

\* C10: dump() yields a record with exactly the three fields model_script,
\* training_module and training_kwargs, and load(dump(x)) has the same
\* model_script, training_module and training_kwargs as x, for every x,
\* empty kwargs and multi-line scripts included.
C10_PayloadRoundTrips ==
    /\ stage \in {"dumped", "loaded"} =>
          /\ Keys(wire) = {"model_script", "training_module", "training_kwargs"}
          /\ Cardinality(wire) = 3
    /\ stage = "loaded" =>
          /\ loaded.model_script = gd.model_script
          /\ loaded.training_module = gd.training_module
          /\ loaded.training_kwargs = gd.training_kwargs

\* C10 witness: a payload with a two-line script and no kwargs, dumped and
\* loaded back.
C10_MultiLineEmptyKwargsLoaded ==
    /\ stage = "loaded"
    /\ gd = BaseGraphData("x = 1\ny = 2", "pkg.Trainer", {})
    /\ loaded = gd

-----------------------------------------------------------------------------
(* Purity, ledger independence, listener failures, ordering, sharing.      *)

Events == {"trial_end", "intermediate_metric", "final_metric"}

\* C14: query_available_resource is a pure read: it returns the current
\* ledger value, leaves the ledger, the registry, the listener list and
\* every model unchanged, calls no listener, and can be called in any
\* reachable state without raising.
C14_QueryIsPureRead ==
    /\ [](steps < MaxSteps => ENABLED (Tick /\ Query))
    /\ [][Delivers({"query_available_resource"}) =>
              /\ ret' = resources
              /\ raised' = "none"
              /\ calls' = <<>>
              /\ UNCHANGED <<resources, warnings, _running_models, _listeners,
                             status, intermediate_metrics, metric, next_id, sent>>]_vars

\* C14 witness: a query that returned 2 on an engine with a ledger of 2, a
\* registered listener and a running model.
C14_QueriedBusyEngine ==
    /\ last = <<"query_available_resource">>
    /\ ret = 2 /\ resources = 2
    /\ _listeners = <<"L1">>
    /\ _running_models = (1 :> "m1")

\* C15: the ledger is changed only by grant and consume events: submit,
\* register, trial-end and metric events, successful or raising, leave it
\* as it is (a trial end returns no unit); and grant and consume events
\* leave the registry, the listener list and every model unchanged and call
\* no listener.
C15_LedgerIndependent ==
    [][/\ resources' /= resources => Delivers({"request_trial_jobs", "send_trial"})
       /\ Delivers({"request_trial_jobs", "send_trial"}) =>
              /\ calls' = <<>>
              /\ UNCHANGED <<_running_models, _listeners,
                             status, intermediate_metrics, metric>>]_vars

\* C15 witness: one unit consumed, m1 submitted, and its trial ended with
\* success: the ledger is still -1.
C15_TrialEndReturnedNoUnit ==
    /\ last = <<"trial_end", 1, TRUE>>
    /\ status["m1"] = "Trained"
    /\ consumed = 1 /\ granted = 0
    /\ resources = -1

\* The position of the first entry of the listener list that raises.
FirstRaising ==
    CHOOSE k \in DOMAIN _listeners :
        /\ _listeners[k] \in failed
        /\ \A j \in 1..(k - 1) : _listeners[j] \notin failed

\* The mutation of the most recent event is in effect on its model.
MutationInEffect ==
    LET model == _running_models[last[2]] IN
    /\ last[1] = "trial_end" => status[model] = TerminalStatus(last[3])
    /\ last[1] = "intermediate_metric" =>
           /\ intermediate_metrics[model] /= <<>>
           /\ intermediate_metrics[model][Len(intermediate_metrics[model])] = last[3]
    /\ last[1] = "final_metric" => metric[model] = last[3]

C17_ListenerSeesUpdatedModel ==
    last[1] \in Events /\ last[2] \in DOMAIN _running_models =>
        LET model == _running_models[last[2]] IN
        /\ Len(seen) = Len(calls)
        /\ \A i \in DOMAIN calls :
               /\ last[1] = "trial_end" => seen[i] = TerminalStatus(last[3])
               /\ last[1] = "intermediate_metric" =>
                      /\ seen[i] = delivered[model]
                      /\ seen[i][Len(seen[i])] = last[3]
               /\ last[1] = "final_metric" => seen[i] = last[3]

\* C17 witness: m1's second intermediate metric delivered with L1
\* registered: L1 found both metrics on the model when it was called.
C17_ListenerSawAppendedMetric ==
    /\ last = <<"intermediate_metric", 1, "y">>
    /\ calls = <<<<"on_intermediate_metric", "L1", "m1", "y">>>>
    /\ seen = <<<<"x", "y">>>>

\* C18: submission does not deduplicate: a model submitted again, in the
\* same call or a later one, gets one more send_trial call, one more
\* identifier and one more registry entry, so that several identifiers
\* reference the one model; and an event on any of them mutates the model
\* that all of them reference.
C18_NoDeduplication ==
    [][/\ Delivers({"submit_models"}) =>
             LET models == last'[2] IN
             \A i \in 1..Len(models) :
                 /\ next_id + i \notin DOMAIN _running_models
                 /\ next_id + i \in DOMAIN _running_models'
                 /\ next_id + i \in DOMAIN sent'
                 /\ \A id \in DOMAIN _running_models' :
                        (id = next_id + i \/ (id \in DOMAIN _running_models
                                               /\ _running_models[id] = models[i]))
                            => _running_models'[id] = models[i]
       /\ DeliversKnown(Events) =>
             \A id \in DOMAIN _running_models :
                 _running_models[id] = _running_models[last'[2]] =>
                     /\ last'[1] = "trial_end" =>
                            status'[_running_models'[id]] = TerminalStatus(last'[3])
                     /\ last'[1] = "intermediate_metric" =>
                            intermediate_metrics'[_running_models'[id]] =
                                Append(intermediate_metrics[_running_models[id]], last'[3])
                     /\ last'[1] = "final_metric" =>
                            metric'[_running_models'[id]] = last'[3]]_vars

\* C18 witness: m1 submitted twice in one call got identifiers 1 and 2; the
\* trial end of 1 made the model registered under 2 Trained.
C18_SharedModelUpdated ==
    /\ last = <<"trial_end", 1, TRUE>>
    /\ _running_models = (1 :> "m1") @@ (2 :> "m1")
    /\ DOMAIN sent = {1, 2}
    /\ ended["m1"] = <<TRUE>>
    /\ status[_running_models[2]] = "Trained"

\* C20: the engine writes no status but Trained and Failed, and a status
\* is not sticky: a model's status is the one it was submitted with while
\* no trial-end event has been handled for it, and afterwards Trained or
\* Failed according to the success flag of the most recent trial-end event
\* handled for it, so that Trained can become Failed and Failed Trained.
C20_StatusFollowsLastTrialEnd ==
    \A m \in Models :
        status[m] = IF ended[m] = <<>> THEN "Waiting"
                    ELSE TerminalStatus(ended[m][Len(ended[m])])

\* C20 witness: m1's trial ended with success and then again with failure:
\* Trained has become Failed.
C20_TrainedBecameFailed ==
    /\ ended["m1"] = <<TRUE, FALSE>>
    /\ status["m1"] = "Failed"

-----------------------------------------------------------------------------
(* The trial entrypoint.                                                   *)

\* The trial process has left trial_execute_graph, by return or by raise.
Exited(r) == rpc[r] \in {"done", "raised"}

\* C11: the temporary model file is removed on every exit path of
\* trial_execute_graph: whenever a trial process has left the method, after
\* success or after any failure that followed the write, the file it wrote
\* no longer exists.
C11_FileRemovedOnEveryExit ==
    \A r \in Runners :
        Exited(r) /\ random_str[r] /= "" =>
            file_name(random_str[r]) \notin DOMAIN files

\* C12: concurrent invocations of trial_execute_graph in one working
\* directory never choose the same file name.
C12_FileNamesDistinct ==
    \A r1, r2 \in Runners :
        r1 /= r2 /\ random_str[r1] /= "" /\ random_str[r2] /= "" =>
            random_str[r1] /= random_str[r2]

-----------------------------------------------------------------------------
(* Concurrent submission and event delivery.                               *)

\* C13: with event handlers running concurrently with submit_models, every
\* event delivered for an id that send_trial has already returned finds
\* that id in the registry: no handler raises for an unknown trial merely
\* because the registry insert has not happened yet.
C13_IssuedIdAlwaysKnown == unknown = {}

\* C19: at every moment at which a listener's on_training_end(model,
\* success) is being invoked, model.status is Trained exactly when success
\* is true, for every interleaving of concurrently running trial-end
\* handlers, including two trial-end events with different outcomes for two
\* ids of one doubly submitted model.
C19_StatusMatchesFlagWhenNotified ==
    \A n \in notified : (n[4] = "Trained") <=> n[3]

====
